---- MODULE Spec2Model ----
(***************************************************************************)
(* Aiyma Chess Zero: the threaded minimax engine (AiymaChessZero, built on *)
(* python-chess) and the stand-alone UCI engine (ChessEngine / UCIEngine). *)
(*                                                                         *)
(* python-chess is an external library: its Board is modelled by a table   *)
(* of positions (piece placement, side to move, ordered legal moves,       *)
(* checkmate / stalemate flags).  Everything the engine itself computes    *)
(* (evaluation, search, cache, dispatch) is translated from the source.    *)
(***************************************************************************)
EXTENDS Integers, Sequences, FiniteSets, TLC

VARIABLES
    rootPos,              \* the position of the board handed to the engine
    self_depth,           \* AiymaChessZero.depth
    self_threads,         \* AiymaChessZero.threads
    transposition_table,  \* AiymaChessZero.transposition_table
    lock,                 \* AiymaChessZero.lock: None, or the task holding it
    board,                \* the one chess.Board get_best_move is called with
    pc,                   \* where the thread calling get_best_move stands
    root_moves,           \* the moves its first loop iterates over
    idx,                  \* the index of the loop it is in
    tasks,                \* futures: the submitted minimax calls, in order
    best_move,            \* get_best_move's local
    best_eval,            \* get_best_move's local
    returned,             \* what the calls of get_best_move so far returned
    call,                 \* SpecSearch: the last method call and its result
    searches,             \* SpecSearch: number of minimax calls on this engine
    engine,               \* UCIEngine.engine: a ChessEngine (board, white_to_move)
    running,              \* UCIEngine.running
    command,              \* run()'s local: the command line read last
    sent,                 \* what send() wrote while that command was processed
    uci_pc                \* where UCIEngine.run() stands

engineVars == <<self_depth, self_threads, lock, board, pc, root_moves, idx, tasks,
                best_move, best_eval, returned>>
searchVars == <<call, searches>>
uciVars == <<engine, running, command, sent, uci_pc>>

vars == <<rootPos, transposition_table, engineVars, searchVars, uciVars>>

----------------------------------------------------------------------------
(* Bounds of the model *)

\* deepest search drawn by the initial states and the search calls
MaxDepth == 4
\* minimax calls made on one engine object in SpecSearch
MaxSearches == 2
\* largest worker pool (AiymaChessZero.threads) drawn by the initial states
MaxThreads == 2
\* calls of get_best_move made on one engine object
MaxCalls == 2
\* deepest search (AiymaChessZero.depth) get_best_move is called with
MaxCallDepth == 2
\* move tokens in one position command
MaxTokens == 2
\* plies handle_go has the engine search; depth=8 at line 158
GoDepth == 2
\* deepest search ChessEngine.alpha_beta / get_best_move is called with
MaxEngineDepth == 2

----------------------------------------------------------------------------
(* Scores.  math.inf is modelled by a number above every finite evaluation. *)

Inf == 1000000
PosInf == Inf
NegInf == 0 - Inf

Max2(a, b) == IF a >= b THEN a ELSE b
Min2(a, b) == IF a <= b THEN a ELSE b

\* Python's None; a move is a pair and a lock holder a 1-tuple, so None is << >>
None == << >>

----------------------------------------------------------------------------
(* Evaluation constants, part_000 lines 12-53 *)

PIECE_VALUES ==
    [t \in {"P", "N", "B", "R", "Q", "K"} |->
        CASE t = "P" -> 100
          [] t = "N" -> 320
          [] t = "B" -> 330
          [] t = "R" -> 500
          [] t = "Q" -> 900
          [] t = "K" -> 20000]

PAWN_TABLE ==
    << 0, 5, 5, 0, 5, 10, 50, 0,
       0, 10, -5, 0, 5, 10, 50, 0,
       0, 5, 5, 10, 20, 30, 50, 0,
       5, 5, 10, 25, 35, 40, 50, 0,
       5, 5, 10, 25, 35, 40, 50, 0,
       0, 5, 5, 10, 20, 30, 50, 0,
       0, 10, -5, 0, 5, 10, 50, 0,
       0, 5, 5, 0, 5, 10, 50, 0 >>

KNIGHT_TABLE ==
    << -50, -40, -30, -30, -30, -30, -40, -50,
       -40, -20, 0, 0, 0, 0, -20, -40,
       -30, 0, 10, 15, 15, 10, 0, -30,
       -30, 5, 15, 20, 20, 15, 5, -30,
       -30, 0, 15, 20, 20, 15, 0, -30,
       -30, 5, 10, 15, 15, 10, 5, -30,
       -40, -20, 0, 5, 5, 0, -20, -40,
       -50, -40, -30, -30, -30, -30, -40, -50 >>

BISHOP_TABLE ==
    << -20, -10, -10, -10, -10, -10, -10, -20,
       -10, 0, 0, 0, 0, 0, 0, -10,
       -10, 0, 5, 10, 10, 5, 0, -10,
       -10, 5, 5, 10, 10, 5, 5, -10,
       -10, 0, 10, 10, 10, 10, 0, -10,
       -10, 10, 10, 10, 10, 10, 10, -10,
       -10, 5, 0, 0, 0, 0, 5, -10,
       -20, -10, -10, -10, -10, -10, -10, -20 >>

\* only pawn, knight and bishop have a table (line 52)
PIECE_SQUARE_TABLES ==
    [t \in {"P", "N", "B"} |->
        CASE t = "P" -> PAWN_TABLE
          [] t = "N" -> KNIGHT_TABLE
          [] t = "B" -> BISHOP_TABLE]

----------------------------------------------------------------------------
(* The chess.Board interface, over a table of positions.                    *)
(* Squares are chess.SQUARES: a1 = 0, b1 = 1, ..., h8 = 63.  A move is      *)
(* <<from_square, to_square>>.  White is TRUE, as chess.WHITE.              *)

White == TRUE
Black == FALSE

Wp(t) == [color |-> White, piece_type |-> t]
Bp(t) == [color |-> Black, piece_type |-> t]

Edge(f, t, child) == [move |-> <<f, t>>, to |-> child]

\* a position outside the table: whatever a board that was pushed or popped
\* by another thread in mid-search may hold
Unknown == "Unknown"

\* the positions that start a scenario, with the side to move and the pieces
RootTurn ==
    [p \in {"Q0", "BQ0", "BM0", "M0", "L0", "S0", "T0"} |->
        CASE p = "Q0" -> White
          [] p = "BQ0" -> Black
          [] p = "BM0" -> Black
          [] p = "M0" -> White
          [] p = "L0" -> White
          [] p = "S0" -> White
          [] p = "T0" -> White]

RootPieces ==
    [p \in DOMAIN RootTurn |->
        CASE p = "Q0" ->
                (6 :> Wp("K")) @@ (3 :> Wp("Q")) @@ (62 :> Bp("K")) @@ (59 :> Bp("Q"))
          [] p = "BQ0" ->
                (6 :> Wp("K")) @@ (3 :> Wp("Q")) @@ (62 :> Bp("K")) @@ (59 :> Bp("Q"))
          [] p = "BM0" ->
                (46 :> Wp("K")) @@ (16 :> Wp("R")) @@ (63 :> Bp("K")) @@ (25 :> Bp("P"))
          [] p = "M0" ->
                (46 :> Wp("K")) @@ (0 :> Wp("R")) @@ (63 :> Bp("K"))
          [] p = "L0" ->
                (7 :> Wp("K")) @@ (15 :> Wp("P")) @@ (22 :> Bp("K")) @@ (56 :> Bp("R"))
          [] p = "S0" ->
                (7 :> Wp("K")) @@ (13 :> Bp("Q")) @@ (23 :> Bp("K"))
          [] p = "T0" ->
                (4 :> Wp("K")) @@ (3 :> Wp("Q")) @@ (0 :> Wp("R"))
                @@ (1 :> Wp("N")) @@ (6 :> Wp("N"))
                @@ (60 :> Bp("K")) @@ (59 :> Bp("Q")) @@ (56 :> Bp("R"))
                @@ (57 :> Bp("N"))]

\* board.legal_moves in generation order, each with the position push() gives
ChildrenOf(p) ==
    CASE p = "Q0" -> << Edge(6, 7, "Q1"), Edge(3, 59, "Q2") >>
      [] p = "Q1" -> << Edge(59, 3, "Q1a") >>
      [] p = "Q2" -> << Edge(62, 55, "Q2a") >>
      [] p = "BQ0" -> << Edge(62, 63, "BQ1"), Edge(59, 3, "BQ2") >>
      [] p = "BM0" -> << Edge(25, 16, "BMy"), Edge(63, 62, "BMx") >>
      [] p = "BMy" -> << Edge(46, 45, "BMy1") >>
      [] p = "BMx" -> << Edge(16, 56, "BMx1") >>
      [] p = "M0" -> << Edge(0, 1, "Mb"), Edge(0, 56, "Ma") >>
      [] p = "Mb" -> << Edge(63, 62, "Mb1") >>
      [] p = "Mb1" -> << Edge(1, 57, "Mb2"), Edge(1, 2, "Mb3") >>
      [] p = "L0" -> << Edge(7, 6, "La"), Edge(15, 23, "Lb") >>
      [] p = "La" -> << Edge(56, 0, "La1") >>
      [] p = "Lb" -> << Edge(56, 0, "Lb1") >>
      [] p = "T0" -> << Edge(6, 21, "TA"), Edge(1, 18, "TB") >>
      [] p = "TA" -> << Edge(57, 42, "TA1"), Edge(59, 3, "TA2") >>
      [] p = "TB" -> << Edge(57, 42, "TB1") >>
      [] p = "TA1" -> << Edge(0, 8, "C1"), Edge(1, 18, "X") >>
      [] p = "TB1" -> << Edge(6, 21, "X") >>
      [] p = "TA2" -> << Edge(4, 13, "TA2c") >>
      [] p = "C1" -> << Edge(56, 48, "C1l") >>
      [] p = "X" -> << Edge(56, 0, "Xl1"), Edge(59, 3, "Xl2") >>
      [] p = "TA2c" -> << Edge(3, 0, "TA2l") >>
      [] OTHER -> << >>

Inner ==
    {"Q0", "Q1", "Q2", "BQ0", "BM0", "BMy", "BMx", "M0", "Mb", "Mb1", "L0", "La",
     "Lb", "T0", "TA", "TB", "TA1", "TB1", "TA2", "C1", "X", "TA2c"}

Positions ==
    Inner \cup DOMAIN RootTurn
          \cup UNION {{ChildrenOf(p)[i].to : i \in 1..Len(ChildrenOf(p))} : p \in Inner}

\* the positions in which the side to move is checkmated / stalemated
Checkmates == {"Ma", "Mb2", "La1", "Lb1", "BMx1"}
Stalemates == {"S0"}

ParentOf(p) ==
    CHOOSE q \in Inner : \E i \in 1..Len(ChildrenOf(q)) : ChildrenOf(q)[i].to = p

MoveInto(p) ==
    LET q == ParentOf(p)
        i == CHOOSE j \in 1..Len(ChildrenOf(q)) : ChildrenOf(q)[j].to = p
    IN  ChildrenOf(q)[i].move

\* what Board.push does to the pieces: the piece on the from-square goes to
\* the to-square and replaces what stood there
MovedPieces(pcs, mv) ==
    [s \in (DOMAIN pcs \ {mv[1]}) \cup {mv[2]} |->
        IF s = mv[2] THEN pcs[mv[1]] ELSE pcs[s]]

PiecesFrom[p \in Positions] ==
    IF p \in DOMAIN RootPieces THEN RootPieces[p]
    ELSE MovedPieces(PiecesFrom[ParentOf(p)], MoveInto(p))

TurnFrom[p \in Positions] ==
    IF p \in DOMAIN RootTurn THEN RootTurn[p] ELSE ~TurnFrom[ParentOf(p)]

PlyFrom[p \in Positions] ==
    IF p \in DOMAIN RootTurn THEN 0 ELSE PlyFrom[ParentOf(p)] + 1

EmptyTable == [k \in {} |-> 0]

\* the tables above, computed once
Children == [p \in Positions |-> ChildrenOf(p)] @@ EmptyTable
PiecesOf == [p \in Positions |-> PiecesFrom[p]] @@ EmptyTable
TurnOf == [p \in Positions |-> TurnFrom[p]] @@ EmptyTable
\* number of plies from the scenario's first position
PlyOf == [p \in Positions |-> PlyFrom[p]] @@ EmptyTable

\* board.turn
turn(p) == TurnOf[p]

\* list(board.legal_moves)
legal_moves(p) == [i \in 1..Len(Children[p]) |-> Children[p][i].move]

is_checkmate(p) == p \in Checkmates
is_stalemate(p) == p \in Stalemates

\* neither side can mate: bare kings, or kings and one minor piece
is_insufficient_material(p) ==
    LET pcs == PiecesOf[p]
        others == {s \in DOMAIN pcs : pcs[s].piece_type # "K"}
    IN  /\ \A s \in others : pcs[s].piece_type \in {"N", "B"}
        /\ Cardinality(others) <= 1

is_game_over(p) ==
    is_checkmate(p) \/ is_stalemate(p) \/ is_insufficient_material(p)

GameOver == {p \in Positions : is_game_over(p)}

\* the position after board.push(move) on a board holding p
PushTo(p, move) ==
    LET ch == Children[p]
        hit == {i \in 1..Len(ch) : ch[i].move = move}
    IN  IF hit = {} THEN Unknown ELSE ch[CHOOSE i \in hit : TRUE].to

\* how deep a search below p stays inside the table
HeightFrom[p \in Positions] ==
    IF p \in GameOver THEN MaxDepth
    ELSE IF ChildrenOf(p) = << >> THEN 0
    ELSE LET hs == {HeightFrom[ChildrenOf(p)[i].to] : i \in 1..Len(ChildrenOf(p))}
         IN  1 + CHOOSE h \in hs : \A g \in hs : h <= g

HeightOf == [p \in Positions |-> HeightFrom[p]] @@ EmptyTable

DepthsAt(p) == 0..Min2(HeightOf[p], MaxDepth)

RECURSIVE ReachFrom(_)
ReachFrom(p) ==
    {p} \cup UNION {ReachFrom(ChildrenOf(p)[i].to) : i \in 1..Len(ChildrenOf(p))}

Reach == [p \in DOMAIN RootTurn |-> ReachFrom(p)] @@ EmptyTable

----------------------------------------------------------------------------
(* AiymaChessZero.evaluate_board, part_000 lines 62-76 *)

\* PIECE_SQUARE_TABLES.get(piece.piece_type, [0] * 64)[square]
pst_value(piece_type, square) ==
    IF piece_type \in DOMAIN PIECE_SQUARE_TABLES
    THEN PIECE_SQUARE_TABLES[piece_type][square + 1]
    ELSE 0

\* the loop over chess.SQUARES, lines 70-75; pcs holds board.piece_at
RECURSIVE eval_score(_, _, _)
eval_score(pcs, to_move, square) ==
    IF square > 63 THEN 0
    ELSE LET piece == pcs[square]
             value == PIECE_VALUES[piece.piece_type]
             pst == pst_value(piece.piece_type, square)
             term == IF square \notin DOMAIN pcs THEN 0
                     ELSE IF piece.color = to_move THEN value + pst
                     ELSE 0 - (value + pst)
         IN  term + eval_score(pcs, to_move, square + 1)

evaluate_board(p) ==
    IF is_checkmate(p) THEN (IF turn(p) THEN NegInf ELSE PosInf)
    ELSE IF is_stalemate(p) \/ is_insufficient_material(p) THEN 0
    ELSE eval_score(PiecesOf[p], turn(p), 0)

\* evaluate_board on every position of the table, computed once
EvalOf == [p \in Positions |-> evaluate_board(p)] @@ EmptyTable

----------------------------------------------------------------------------
(* AiymaChessZero.minimax run by one thread on a board of its own,          *)
(* part_000 lines 78-117.  The table is threaded through the recursion.     *)
(* prune and cache switch the beta <= alpha break and the table off, for    *)
(* the comparisons the claims make; the code is prune = cache = TRUE.       *)

Put(tt, key, score) ==
    [k \in DOMAIN tt \cup {key} |-> IF k = key THEN score ELSE tt[k]]

RECURSIVE minimax(_, _, _, _, _, _, _, _)
RECURSIVE minimax_loop(_, _, _, _, _, _, _, _, _, _)

minimax_loop(tt, p, depth, alpha, beta, maximizing_player, i, best, prune, cache) ==
    IF i > Len(Children[p]) THEN [score |-> best, table |-> tt]
    ELSE LET r == minimax(tt, Children[p][i].to, depth - 1, alpha, beta,
                          ~maximizing_player, prune, cache)
             eval == r.score
             best2 == IF maximizing_player THEN Max2(best, eval) ELSE Min2(best, eval)
             alpha2 == IF maximizing_player THEN Max2(alpha, eval) ELSE alpha
             beta2 == IF maximizing_player THEN beta ELSE Min2(beta, eval)
         IN  IF prune /\ beta2 <= alpha2
             THEN [score |-> best2, table |-> r.table]
             ELSE minimax_loop(r.table, p, depth, alpha2, beta2, maximizing_player,
                               i + 1, best2, prune, cache)

minimax(tt, p, depth, alpha, beta, maximizing_player, prune, cache) ==
    LET key == <<p, depth>> IN
    IF cache /\ key \in DOMAIN tt THEN [score |-> tt[key], table |-> tt]
    ELSE IF depth = 0 \/ p \in GameOver
    THEN LET score == EvalOf[p]
         IN  [score |-> score, table |-> IF cache THEN Put(tt, key, score) ELSE tt]
    ELSE LET r == minimax_loop(tt, p, depth, alpha, beta, maximizing_player, 1,
                               IF maximizing_player THEN NegInf ELSE PosInf,
                               prune, cache)
         IN  [score |-> r.score,
              table |-> IF cache THEN Put(r.table, key, r.score) ELSE r.table]

----------------------------------------------------------------------------
(* ChessEngine and UCIEngine, src/Engine/Aiyma Chess Zero.py.py.  A command *)
(* line is the list of its words (command.split(" ")); Chars gives the      *)
(* characters of a word, for the indexing and the prefix tests of the code. *)

Chars ==
    [w \in {"uci", "isready", "ucinewgame", "quit", "stop", "position", "startpos",
            "moves", "fen", "go", "e2e4", "e7e5", "e2", "e2ex", "i2i4", "e9e4",
            "g1f3", "e7e1"} |->
        CASE w = "uci" -> <<"u", "c", "i">>
          [] w = "isready" -> <<"i", "s", "r", "e", "a", "d", "y">>
          [] w = "ucinewgame" -> <<"u", "c", "i", "n", "e", "w", "g", "a", "m", "e">>
          [] w = "quit" -> <<"q", "u", "i", "t">>
          [] w = "stop" -> <<"s", "t", "o", "p">>
          [] w = "position" -> <<"p", "o", "s", "i", "t", "i", "o", "n">>
          [] w = "startpos" -> <<"s", "t", "a", "r", "t", "p", "o", "s">>
          [] w = "moves" -> <<"m", "o", "v", "e", "s">>
          [] w = "fen" -> <<"f", "e", "n">>
          [] w = "go" -> <<"g", "o">>
          [] w = "e2e4" -> <<"e", "2", "e", "4">>
          [] w = "e7e5" -> <<"e", "7", "e", "5">>
          [] w = "e2" -> <<"e", "2">>
          [] w = "e2ex" -> <<"e", "2", "e", "x">>
          [] w = "i2i4" -> <<"i", "2", "i", "4">>
          [] w = "e9e4" -> <<"e", "9", "e", "4">>
          [] w = "g1f3" -> <<"g", "1", "f", "3">>
          [] w = "e7e1" -> <<"e", "7", "e", "1">>]

Letters ==
    <<"a", "b", "c", "d", "e", "f", "g", "h", "i", "j", "k", "l", "m",
      "n", "o", "p", "q", "r", "s", "t", "u", "v", "w", "x", "y", "z">>
Digits == <<"0", "1", "2", "3", "4", "5", "6", "7", "8", "9">>

IndexIn(seq, x) == CHOOSE i \in 1..Len(seq) : seq[i] = x /\ \A j \in 1..(i - 1) : seq[j] # x
Contains(seq, x) == \E i \in 1..Len(seq) : seq[i] = x

\* Python's ord() on the characters of the words above
ord(ch) == IF Contains(Digits, ch) THEN 47 + IndexIn(Digits, ch) ELSE 96 + IndexIn(Letters, ch)
\* Python's int() on one character: its value, ValueError on a non-digit
IsDigit(ch) == Contains(Digits, ch)
int(ch) == IndexIn(Digits, ch) - 1

\* str.startswith on a command line, for a prefix without a blank
startswith(cmd, prefix) ==
    /\ cmd # << >>
    /\ Len(Chars[cmd[1]]) >= Len(Chars[prefix])
    /\ SubSeq(Chars[cmd[1]], 1, Len(Chars[prefix])) = Chars[prefix]

\* ChessEngine.__init__, lines 12-23: board[r][c] with rows and columns 0..7
StartBoard ==
    [r \in 0..7 |->
        [c \in 0..7 |->
            CASE r = 0 -> <<"r", "n", "b", "q", "k", "b", "n", "r">>[c + 1]
              [] r = 1 -> "p"
              [] r = 6 -> "P"
              [] r = 7 -> <<"R", "N", "B", "Q", "K", "B", "N", "R">>[c + 1]
              [] OTHER -> "."]]

ChessEngine == [board |-> StartBoard, white_to_move |-> TRUE]

\* indexing a Python list of 8 items: -8..7 are its indices, the negative
\* ones counting from the end; any other index raises IndexError
InList(i) == i \in (0 - 8)..7
ListIndex(i) == i % 8

\* ChessEngine.make_move, lines 59-64.  Line 62 reads board[from] and then
\* stores into board[to]; an IndexError leaves the engine as it was.
make_move(e, move) ==
    LET from_pos == move[1]
        to_pos == move[2]
    IN  IF ~(InList(from_pos[1]) /\ InList(from_pos[2])
             /\ InList(to_pos[1]) /\ InList(to_pos[2]))
        THEN [raised |-> TRUE, engine |-> e]
        ELSE LET fr == ListIndex(from_pos[1])
                 fc == ListIndex(from_pos[2])
                 tr == ListIndex(to_pos[1])
                 tc == ListIndex(to_pos[2])
                 b1 == [e.board EXCEPT ![tr][tc] = e.board[fr][fc]]
                 b2 == [b1 EXCEPT ![fr][fc] = "."]
             IN  [raised |-> FALSE,
                  engine |-> [board |-> b2, white_to_move |-> ~e.white_to_move]]

\* UCIEngine.uci_to_move, lines 162-165: move_str[1], move_str[0],
\* move_str[3], move_str[2] in this order; IndexError past the end of the
\* word, ValueError from int() on a non-digit
uci_to_move_chars(s) ==
    IF Len(s) < 2 \/ ~IsDigit(s[2]) THEN [raised |-> TRUE, move |-> None]
    ELSE IF Len(s) < 4 \/ ~IsDigit(s[4]) THEN [raised |-> TRUE, move |-> None]
    ELSE [raised |-> FALSE,
          move |-> << <<8 - int(s[2]), ord(s[1]) - ord("a")>>,
                      <<8 - int(s[4]), ord(s[3]) - ord("a")>> >>]

uci_to_move(move_str) == uci_to_move_chars(Chars[move_str])

\* a move_to_uci that counts the ranks from the top row
move_to_uci_from_top(move) ==
    LET from_pos == move[1]
        to_pos == move[2]
    IN  << Letters[from_pos[2] + 1], Digits[from_pos[1] + 2],
           Letters[to_pos[2] + 1], Digits[to_pos[1] + 2] >>

\* UCIEngine.move_to_uci, lines 167-170: the four characters of the move
move_to_uci(move) ==
    LET from_pos == move[1]
        to_pos == move[2]
    IN  << Letters[from_pos[2] + 1], Digits[8 - from_pos[1] + 1],
           Letters[to_pos[2] + 1], Digits[8 - to_pos[1] + 1] >>

\* lines 153-154: the moves made one after the other, from the i-th on
RECURSIVE make_moves(_, _, _)
make_moves(e, moves, i) ==
    IF i > Len(moves) THEN [raised |-> FALSE, engine |-> e]
    ELSE LET m == uci_to_move(moves[i])
         IN  IF m.raised THEN [raised |-> TRUE, engine |-> e]
             ELSE LET r == make_move(e, m.move)
                  IN  IF r.raised THEN r ELSE make_moves(r.engine, moves, i + 1)

\* a handle_position that makes the moves on the engine it finds
handle_position_keeping(e, cmd) ==
    LET parts == cmd
    IN  IF Contains(parts, "startpos")
        THEN LET moves_index == IF Contains(parts, "moves")
                                THEN IndexIn(parts, "moves") + 1
                                ELSE Len(parts) + 1
                 moves == SubSeq(parts, moves_index, Len(parts))
             IN  make_moves(e, moves, 1)
        ELSE [raised |-> FALSE, engine |-> e]

\* UCIEngine.handle_position, lines 146-154
handle_position(e, cmd) ==
    LET parts == cmd
    IN  IF Contains(parts, "startpos")
        THEN LET moves_index == IF Contains(parts, "moves")
                                THEN IndexIn(parts, "moves") + 1
                                ELSE Len(parts) + 1
                 moves == SubSeq(parts, moves_index, Len(parts))
             IN  make_moves(ChessEngine, moves, 1)
        ELSE [raised |-> FALSE, engine |-> e]

(* ChessEngine's evaluation, move generation and search, lines 5-116.  A    *)
(* method that can raise gives a record with a raised field; the search     *)
(* gives the engine it leaves behind as well.                                *)

\* PIECE_VALUES of the stand-alone engine, lines 6-9
ENGINE_PIECE_VALUES ==
    [P |-> 100, N |-> 320, B |-> 330, R |-> 500, Q |-> 900, K |-> 20000,
     p |-> 0 - 100, n |-> 0 - 320, b |-> 0 - 330, r |-> 0 - 500, q |-> 0 - 900,
     k |-> 0 - 20000]

\* ChessEngine.evaluate, lines 25-31: PIECE_VALUES.get(piece, 0) summed over
\* the pieces of a row from column c on, and over the rows from row r on
RECURSIVE RowScore(_, _)
RowScore(row, c) ==
    IF c > 7 THEN 0
    ELSE (IF row[c] \in DOMAIN ENGINE_PIECE_VALUES THEN ENGINE_PIECE_VALUES[row[c]] ELSE 0)
         + RowScore(row, c + 1)

RECURSIVE BoardScore(_, _)
BoardScore(b, r) ==
    IF r > 7 THEN 0 ELSE RowScore(b[r], 0) + BoardScore(b, r + 1)

evaluate(e) == BoardScore(e.board, 0)

\* str.isupper() and str.upper() on a one-character piece
isupper(piece) == piece \in {"P", "N", "B", "R", "Q", "K"}
upper(piece) ==
    CASE piece = "p" -> "P" [] piece = "n" -> "N" [] piece = "b" -> "B"
      [] piece = "r" -> "R" [] piece = "q" -> "Q" [] piece = "k" -> "K"
      [] OTHER -> piece

\* ChessEngine.generate_piece_moves, lines 42-57.  rows lists the row indices
\* self.board was subscripted with, as written (r + step, r + 2 * step).
generate_piece_moves(e, pos, piece) ==
    LET r == pos[1]
        c == pos[2]
        step == IF isupper(piece) THEN 0 - 1 ELSE 1
        start_row == IF isupper(piece) THEN 6 ELSE 1
    IN  IF upper(piece) # "P" THEN [raised |-> FALSE, moves |-> << >>, rows |-> {}]
        ELSE IF ~InList(r + step)
        THEN [raised |-> TRUE, moves |-> << >>, rows |-> {r + step}]
        ELSE IF e.board[ListIndex(r + step)][c] # "."
        THEN [raised |-> FALSE, moves |-> << >>, rows |-> {r + step}]
        ELSE IF r # start_row
        THEN [raised |-> FALSE, moves |-> << <<pos, <<r + step, c>> >> >>,
              rows |-> {r + step}]
        ELSE IF e.board[ListIndex(r + 2 * step)][c] # "."
        THEN [raised |-> FALSE, moves |-> << <<pos, <<r + step, c>> >> >>,
              rows |-> {r + step, r + 2 * step}]
        ELSE [raised |-> FALSE,
              moves |-> << <<pos, <<r + step, c>> >>, <<pos, <<r + 2 * step, c>> >> >>,
              rows |-> {r + step, r + 2 * step}]

\* ChessEngine.generate_legal_moves, lines 33-40: the squares holding a piece
\* of the side to move, in the order of the two loops, and the moves of the
\* pieces from the i-th of them on
AllSquares == [i \in 1..64 |-> <<(i - 1) \div 8, (i - 1) % 8>>]

RECURSIVE generate_from(_, _, _)
generate_from(e, squares, i) ==
    IF i > Len(squares) THEN [raised |-> FALSE, moves |-> << >>, rows |-> {}]
    ELSE LET pos == squares[i]
             g == generate_piece_moves(e, pos, e.board[pos[1]][pos[2]])
         IN  IF g.raised THEN g
             ELSE LET rest == generate_from(e, squares, i + 1)
                  IN  [raised |-> rest.raised,
                       moves |-> IF rest.raised THEN << >> ELSE g.moves \o rest.moves,
                       rows |-> g.rows \cup rest.rows]

generate_legal_moves(e) ==
    LET OfSide(pos) == LET piece == e.board[pos[1]][pos[2]]
                       IN  (isupper(piece) = e.white_to_move) /\ piece # "."
    IN  generate_from(e, SelectSeq(AllSquares, OfSide), 1)

\* an undo_move that leaves the target square empty
undo_move_emptying(e, move, captured_piece) ==
    LET from_pos == move[1]
        to_pos == move[2]
        fr == ListIndex(from_pos[1])
        fc == ListIndex(from_pos[2])
        tr == ListIndex(to_pos[1])
        tc == ListIndex(to_pos[2])
        b1 == [e.board EXCEPT ![fr][fc] = e.board[tr][tc]]
        b2 == [b1 EXCEPT ![tr][tc] = "."]
    IN  [board |-> b2, white_to_move |-> ~e.white_to_move]

\* ChessEngine.undo_move, lines 66-71
undo_move(e, move, captured_piece) ==
    LET from_pos == move[1]
        to_pos == move[2]
        fr == ListIndex(from_pos[1])
        fc == ListIndex(from_pos[2])
        tr == ListIndex(to_pos[1])
        tc == ListIndex(to_pos[2])
        b1 == [e.board EXCEPT ![fr][fc] = e.board[tr][tc]]
        b2 == [b1 EXCEPT ![tr][tc] = captured_piece]
    IN  [board |-> b2, white_to_move |-> ~e.white_to_move]

\* ChessEngine.alpha_beta, lines 73-111.  An exception below leaves the moves
\* made on the way down on the board: no undo_move runs.
RECURSIVE alpha_beta(_, _, _, _, _)
RECURSIVE alpha_beta_loop(_, _, _, _, _, _, _, _, _)

alpha_beta_loop(e, depth, alpha, beta, maximizing_player, moves, i, max_eval, best) ==
    IF i > Len(moves)
    THEN [raised |-> FALSE, eval |-> max_eval, move |-> best, engine |-> e]
    ELSE LET move == moves[i]
             captured_piece == e.board[ListIndex(move[2][1])][ListIndex(move[2][2])]
             made == make_move(e, move).engine
             sub == alpha_beta(made, depth - 1, alpha, beta, ~maximizing_player)
         IN  IF sub.raised THEN sub
             ELSE LET undone == undo_move(sub.engine, move, captured_piece)
                      better == IF maximizing_player THEN sub.eval > max_eval
                                ELSE sub.eval < max_eval
                      eval2 == IF better THEN sub.eval ELSE max_eval
                      best2 == IF better THEN move ELSE best
                      alpha2 == IF maximizing_player THEN Max2(alpha, sub.eval) ELSE alpha
                      beta2 == IF maximizing_player THEN beta ELSE Min2(beta, sub.eval)
                  IN  IF beta2 <= alpha2
                      THEN [raised |-> FALSE, eval |-> eval2, move |-> best2,
                            engine |-> undone]
                      ELSE alpha_beta_loop(undone, depth, alpha2, beta2, maximizing_player,
                                           moves, i + 1, eval2, best2)

alpha_beta(e, depth, alpha, beta, maximizing_player) ==
    IF depth = 0
    THEN [raised |-> FALSE, eval |-> evaluate(e), move |-> None, engine |-> e]
    ELSE LET g == generate_legal_moves(e)
         IN  IF g.raised
             THEN [raised |-> TRUE, eval |-> 0, move |-> None, engine |-> e]
             ELSE IF g.moves = << >>
             THEN [raised |-> FALSE,
                   eval |-> IF maximizing_player THEN NegInf ELSE PosInf,
                   move |-> None, engine |-> e]
             ELSE alpha_beta_loop(e, depth, alpha, beta, maximizing_player, g.moves, 1,
                                  IF maximizing_player THEN NegInf ELSE PosInf, None)

\* ChessEngine.get_best_move, lines 113-116
get_best_move(e, depth) ==
    LET r == alpha_beta(e, depth, NegInf, PosInf, TRUE)
    IN  [raised |-> r.raised, move |-> r.move, engine |-> r.engine]

\* UCIEngine.handle_go, lines 156-160, searching `depth` plies.  Unpacking a
\* best_move of None in move_to_uci raises TypeError.
handle_go(e, depth) ==
    LET r == get_best_move(e, depth)
    IN  IF r.raised \/ r.move = None
        THEN [raised |-> TRUE, engine |-> r.engine, sent |-> << >>]
        ELSE [raised |-> FALSE, engine |-> r.engine,
              sent |-> <<"bestmove">> \o move_to_uci(r.move)]

MoveWords == {"e2e4", "e7e5", "g1f3", "e7e1", "e2", "e2ex", "i2i4", "e9e4"}

RECURSIVE WordLists(_)
WordLists(n) ==
    IF n = 0 THEN {<< >>}
    ELSE WordLists(n - 1)
         \cup {Append(ws, w) : ws \in {l \in WordLists(n - 1) : Len(l) = n - 1},
                               w \in MoveWords}

\* the command lines run() reads
Commands ==
    {<<"uci">>, <<"isready">>, <<"ucinewgame">>, <<"quit">>, <<"stop">>, <<"go">>,
     <<"position", "fen">>, <<"position", "moves", "e2e4">>, <<"position", "startpos">>}
    \cup {<<"position", "startpos", "moves">> \o ws : ws \in WordLists(MaxTokens)}

\* the engine part of a state in which no UCIEngine has read a command
NoUCI ==
    /\ engine = ChessEngine
    /\ running = TRUE
    /\ command = << >>
    /\ sent = << >>
    /\ uci_pc = "run"

----------------------------------------------------------------------------
(* SpecSearch: evaluate_board and minimax called, one call after another,   *)
(* on the positions of one game by a single thread.                         *)

Windows == {<<NegInf, PosInf>>, <<0, PosInf>>}

\* get_best_move searches the root's children with maximizing_player False
\* (line 127), so the flag alternates with the ply below the root
MaximizingAt(p) == (PlyOf[p] % 2 = 0)

NoCall == [op |-> "none"]

\* SpecSearch calls no get_best_move: its variables stay as constructed
NoDispatch ==
    /\ self_depth = 0
    /\ self_threads = 0
    /\ lock = None
    /\ board = [pos |-> rootPos, stack |-> << >>]
    /\ pc = "idle"
    /\ root_moves = << >>
    /\ idx = 0
    /\ tasks = << >>
    /\ best_move = None
    /\ best_eval = NegInf
    /\ returned = << >>

InitSearch ==
    /\ rootPos \in DOMAIN RootTurn
    /\ transposition_table = EmptyTable
    /\ call = NoCall
    /\ searches = 0
    /\ NoDispatch
    /\ NoUCI

CallEvaluate(p) ==
    /\ call' = [op |-> "evaluate_board", pos |-> p, score |-> evaluate_board(p)]
    /\ UNCHANGED <<rootPos, transposition_table, searches, engineVars, uciVars>>

CallMinimax(p, d, w) ==
    /\ searches < MaxSearches
    /\ LET r == minimax(transposition_table, p, d, w[1], w[2], MaximizingAt(p),
                        TRUE, TRUE)
       IN  /\ transposition_table' = r.table
           /\ call' = [op |-> "minimax", pos |-> p, depth |-> d, alpha |-> w[1],
                       beta |-> w[2], maximizing_player |-> MaximizingAt(p),
                       score |-> r.score, fresh |-> (searches = 0)]
    /\ searches' = searches + 1
    /\ UNCHANGED <<rootPos, engineVars, uciVars>>

NextSearch ==
    \/ \E p \in Reach[rootPos] : CallEvaluate(p)
    \/ \E p \in Reach[rootPos] : \E d \in DepthsAt(p) : \E w \in Windows :
          CallMinimax(p, d, w)

SpecSearch == InitSearch /\ [][NextSearch]_vars

----------------------------------------------------------------------------
(* Spec: get_best_move and the minimax calls it submits to its thread pool, *)
(* part_000 lines 78-135, one step per statement that reads or writes the   *)
(* board, the table or the lock.  Every thread works on the one Board       *)
(* object get_best_move was called with.                                    *)

\* the scores a search below a position outside the table may return
UnknownEvals == {NegInf, 0, PosInf}

\* the positions get_best_move is called on
CallRoots == {"Q0", "BQ0", "BM0", "M0", "L0", "S0", "La", "La1", "Ma"}

\* repeated calls are followed for the searches of one ply
CallsAt(d) == IF d = 1 THEN MaxCalls ELSE 1

\* chess.Board: the current position and the stack pop() restores from
NewBoard(p) == [pos |-> p, stack |-> << >>]

\* Board.push(move).  A move that is not legal in the position the board
\* holds by now lands outside the table; push() raises its AssertionError
\* when the from-square is empty, after it has stacked the old state.
PushOutcomes(b, move) ==
    LET q == b.pos
        stacked == Append(b.stack, q)
        known == q # Unknown
        legal == known /\ PushTo(q, move) # Unknown
        ok == [board |-> [pos |-> IF legal THEN PushTo(q, move) ELSE Unknown,
                          stack |-> stacked],
               raised |-> FALSE]
        bad == [board |-> [pos |-> Unknown, stack |-> stacked], raised |-> TRUE]
    IN  IF legal THEN {ok}
        ELSE IF known THEN (IF move[1] \in DOMAIN PiecesOf[q] THEN {ok} ELSE {bad})
        ELSE {ok, bad}

\* Board.pop(); IndexError on an empty stack
CanPop(b) == Len(b.stack) > 0
Popped(b) == [pos |-> b.stack[Len(b.stack)], stack |-> SubSeq(b.stack, 1, Len(b.stack) - 1)]

\* one activation of minimax: its arguments and locals
Frame(d, a, b, m) ==
    [at |-> "lock1", depth |-> d, alpha |-> a, beta |-> b, maximizing_player |-> m,
     key |-> <<Unknown, d>>, legal_moves |-> << >>, i |-> 0, best |-> 0, eval |-> 0]

Top(t) == tasks[t].frames[Len(tasks[t].frames)]
Running(t) == t \in 1..Len(tasks) /\ tasks[t].state = "running"
Finished(t) == tasks[t].state \in {"done", "failed"}

SetTop(t, f) == [tasks EXCEPT ![t].frames[Len(tasks[t].frames)] = f]

\* `return value` of the running activation of task t
Returned(t, value) ==
    LET fs == tasks[t].frames
        n == Len(fs)
    IN  IF n = 1
        THEN [tasks EXCEPT ![t].frames = << >>, ![t].state = "done", ![t].result = value]
        ELSE [tasks EXCEPT ![t].frames =
                 [SubSeq(fs, 1, n - 1) EXCEPT ![n - 1].eval = value, ![n - 1].at = "pop"]]

\* an exception leaves every activation of task t; the future keeps it
Failed(t) == [tasks EXCEPT ![t].frames = << >>, ![t].state = "failed"]

\* AiymaChessZero(depth, threads) and the board it is to search.  The executor
\* starts a thread per submitted task up to max_workers, so the pools larger
\* than the number of root moves run as the pool of that size does.
Init ==
    /\ rootPos \in CallRoots
    /\ self_depth \in 1..Max2(1, Min2(HeightOf[rootPos], MaxCallDepth))
    /\ self_threads \in 1..Max2(1, Min2(MaxThreads, Len(Children[rootPos])))
    /\ transposition_table = EmptyTable
    /\ lock = None
    /\ board = NewBoard(rootPos)
    /\ pc = "idle"
    /\ root_moves = << >>
    /\ idx = 0
    /\ tasks = << >>
    /\ best_move = None
    /\ best_eval = NegInf
    /\ returned = << >>
    /\ call = NoCall
    /\ searches = 0
    /\ NoUCI

(* get_best_move, lines 119-135 *)

\* a get_best_move that raises on a board without legal moves
GetBestMoveRaising ==
    /\ pc = "idle"
    /\ Len(returned) < CallsAt(self_depth)
    /\ board' = NewBoard(rootPos)
    /\ best_move' = None
    /\ best_eval' = NegInf
    /\ tasks' = << >>
    /\ root_moves' = legal_moves(rootPos)
    /\ idx' = 1
    /\ pc' = IF legal_moves(rootPos) = << >> THEN "unwind" ELSE "push"
    /\ UNCHANGED <<rootPos, self_depth, self_threads, transposition_table, lock,
                   returned, searchVars, uciVars>>

\* lines 121-125: the locals, the executor, the first loop's iterator
GetBestMove ==
    /\ pc = "idle"
    /\ Len(returned) < CallsAt(self_depth)
    /\ board' = NewBoard(rootPos)
    /\ best_move' = None
    /\ best_eval' = NegInf
    /\ tasks' = << >>
    /\ root_moves' = legal_moves(rootPos)
    /\ idx' = 1
    /\ pc' = IF legal_moves(rootPos) = << >> THEN "collect" ELSE "push"
    /\ UNCHANGED <<rootPos, self_depth, self_threads, transposition_table, lock,
                   returned, searchVars, uciVars>>

\* line 126: board.push(move)
DispatchPush ==
    /\ pc = "push"
    /\ \E o \in PushOutcomes(board, root_moves[idx]) :
          /\ board' = o.board
          /\ pc' = IF o.raised THEN "unwind" ELSE "submit"
    /\ UNCHANGED <<rootPos, self_depth, self_threads, transposition_table, lock,
                   root_moves, idx, tasks, best_move, best_eval, returned, searchVars, uciVars>>

\* lines 127-128: executor.submit(self.minimax, board, self.depth - 1, ...)
DispatchSubmit ==
    /\ pc = "submit"
    /\ tasks' = Append(tasks, [move |-> root_moves[idx], state |-> "queued",
                               result |-> 0, frames |-> << >>])
    /\ pc' = "pop"
    /\ UNCHANGED <<rootPos, self_depth, self_threads, transposition_table, lock,
                   board, root_moves, idx, best_move, best_eval, returned, searchVars, uciVars>>

\* line 129: board.pop(), and the loop's next move
DispatchPop ==
    /\ pc = "pop"
    /\ IF CanPop(board)
       THEN /\ board' = Popped(board)
            /\ idx' = IF idx < Len(root_moves) THEN idx + 1 ELSE 1
            /\ pc' = IF idx < Len(root_moves) THEN "push" ELSE "collect"
       ELSE /\ pc' = "unwind"
            /\ UNCHANGED <<board, idx>>
    /\ UNCHANGED <<rootPos, self_depth, self_threads, transposition_table, lock,
                   root_moves, tasks, best_move, best_eval, returned, searchVars, uciVars>>

\* lines 130-134: future.result() of the next future, and the comparison
DispatchCollect ==
    /\ pc = "collect"
    /\ idx <= Len(tasks)
    /\ Finished(idx)
    /\ IF tasks[idx].state = "failed"
       THEN /\ pc' = "unwind"
            /\ UNCHANGED <<idx, best_move, best_eval>>
       ELSE /\ IF tasks[idx].result > best_eval
               THEN /\ best_eval' = tasks[idx].result
                    /\ best_move' = tasks[idx].move
               ELSE UNCHANGED <<best_move, best_eval>>
            /\ idx' = idx + 1
            /\ pc' = "collect"
    /\ UNCHANGED <<rootPos, self_depth, self_threads, transposition_table, lock,
                   board, root_moves, tasks, returned, searchVars, uciVars>>

\* line 135, after the executor's shutdown(wait=True) at the end of `with`
DispatchReturn ==
    /\ pc = "collect"
    /\ idx > Len(tasks)
    /\ \A t \in 1..Len(tasks) : Finished(t)
    /\ returned' = Append(returned, best_move)
    /\ pc' = "idle"
    /\ UNCHANGED <<rootPos, self_depth, self_threads, transposition_table, lock,
                   board, root_moves, idx, tasks, best_move, best_eval, searchVars, uciVars>>

\* an exception leaves get_best_move once the executor has shut down
DispatchRaise ==
    /\ pc = "unwind"
    /\ \A t \in 1..Len(tasks) : Finished(t)
    /\ pc' = "raised"
    /\ UNCHANGED <<rootPos, self_depth, self_threads, transposition_table, lock,
                   board, root_moves, idx, tasks, best_move, best_eval, returned,
                   searchVars, uciVars>>

(* the pool's worker threads *)

\* a free worker takes the oldest queued call of minimax
StartTask(t) ==
    /\ t \in 1..Len(tasks)
    /\ tasks[t].state = "queued"
    /\ \A u \in 1..(t - 1) : tasks[u].state # "queued"
    /\ Cardinality({u \in 1..Len(tasks) : tasks[u].state = "running"}) < self_threads
    /\ tasks' = [tasks EXCEPT ![t].state = "running",
                              ![t].frames = << Frame(self_depth - 1, NegInf, PosInf, FALSE) >>]
    /\ UNCHANGED <<rootPos, self_depth, self_threads, transposition_table, lock,
                   board, pc, root_moves, idx, best_move, best_eval, returned,
                   searchVars, uciVars>>

(* minimax, lines 78-117 *)

\* `with self.lock:` entered, lines 80, 87, 102, 115
Acquire(t) ==
    /\ Running(t)
    /\ Top(t).at \in {"lock1", "lock2"}
    /\ lock = None
    /\ lock' = <<t>>
    /\ tasks' = SetTop(t, [Top(t) EXCEPT !.at = IF Top(t).at = "lock1" THEN "probe"
                                                ELSE "store"])
    /\ UNCHANGED <<rootPos, self_depth, self_threads, transposition_table, board, pc,
                   root_moves, idx, best_move, best_eval, returned, searchVars, uciVars>>

\* lines 81-83: the key from board.fen(), the lookup, the lock released
Probe(t) ==
    /\ Running(t)
    /\ Top(t).at = "probe"
    /\ lock' = None
    /\ LET key == <<board.pos, Top(t).depth>>
       IN  IF key \in DOMAIN transposition_table
           THEN tasks' = Returned(t, transposition_table[key])
           ELSE tasks' = SetTop(t, [Top(t) EXCEPT !.key = key, !.at = "check"])
    /\ UNCHANGED <<rootPos, self_depth, self_threads, transposition_table, board, pc,
                   root_moves, idx, best_move, best_eval, returned, searchVars, uciVars>>

\* lines 85-86: a leaf is evaluated; lines 91-93, 106: the moves are listed.
\* Below a position outside the table the search may return any score.
Check(t) ==
    /\ Running(t)
    /\ Top(t).at = "check"
    /\ LET f == Top(t)
           p == board.pos
           outside == p = Unknown \/ (f.depth # 0 /\ p \notin GameOver
                                      /\ Children[p] = << >>)
       IN  IF outside
           THEN \E score \in UnknownEvals :
                   tasks' = SetTop(t, [f EXCEPT !.best = score, !.at = "lock2"])
           ELSE IF f.depth = 0 \/ p \in GameOver
           THEN tasks' = SetTop(t, [f EXCEPT !.best = EvalOf[p], !.at = "lock2"])
           ELSE tasks' = SetTop(t, [f EXCEPT
                            !.legal_moves = legal_moves(p),
                            !.i = 1,
                            !.best = IF f.maximizing_player THEN NegInf ELSE PosInf,
                            !.at = "push"])
    /\ UNCHANGED <<rootPos, self_depth, self_threads, transposition_table, lock, board,
                   pc, root_moves, idx, best_move, best_eval, returned, searchVars, uciVars>>

\* lines 95-96, 108-109: board.push(move) and the recursive call
Push(t) ==
    /\ Running(t)
    /\ Top(t).at = "push"
    /\ LET f == Top(t)
       IN  \E o \in PushOutcomes(board, f.legal_moves[f.i]) :
              /\ board' = o.board
              /\ IF o.raised
                 THEN tasks' = Failed(t)
                 ELSE tasks' = [tasks EXCEPT ![t].frames =
                         Append([tasks[t].frames EXCEPT ![Len(tasks[t].frames)].at = "called"],
                                Frame(f.depth - 1, f.alpha, f.beta, ~f.maximizing_player))]
    /\ UNCHANGED <<rootPos, self_depth, self_threads, transposition_table, lock, pc,
                   root_moves, idx, best_move, best_eval, returned, searchVars, uciVars>>

\* lines 97-101, 110-114: board.pop(), the fold, the cutoff
Pop(t) ==
    /\ Running(t)
    /\ Top(t).at = "pop"
    /\ IF CanPop(board)
       THEN /\ board' = Popped(board)
            /\ LET f == Top(t)
                   best2 == IF f.maximizing_player THEN Max2(f.best, f.eval)
                            ELSE Min2(f.best, f.eval)
                   alpha2 == IF f.maximizing_player THEN Max2(f.alpha, f.eval) ELSE f.alpha
                   beta2 == IF f.maximizing_player THEN f.beta ELSE Min2(f.beta, f.eval)
                   last == beta2 <= alpha2 \/ f.i = Len(f.legal_moves)
               IN  tasks' = SetTop(t, [f EXCEPT !.best = best2, !.alpha = alpha2,
                                                !.beta = beta2,
                                                !.i = IF last THEN f.i ELSE f.i + 1,
                                                !.at = IF last THEN "lock2" ELSE "push"])
       ELSE /\ tasks' = Failed(t)
            /\ UNCHANGED board
    /\ UNCHANGED <<rootPos, self_depth, self_threads, transposition_table, lock, pc,
                   root_moves, idx, best_move, best_eval, returned, searchVars, uciVars>>

\* lines 88-89, 103-104, 116-117: the score stored under key, and returned
Store(t) ==
    /\ Running(t)
    /\ Top(t).at = "store"
    /\ lock' = None
    /\ transposition_table' =
          IF Top(t).key[1] = Unknown THEN transposition_table
          ELSE Put(transposition_table, Top(t).key, Top(t).best)
    /\ tasks' = Returned(t, Top(t).best)
    /\ UNCHANGED <<rootPos, self_depth, self_threads, board, pc, root_moves, idx,
                   best_move, best_eval, returned, searchVars, uciVars>>

TaskIds == 1..Len(tasks)

Next ==
    \/ GetBestMove
    \/ DispatchPush
    \/ DispatchSubmit
    \/ DispatchPop
    \/ DispatchCollect
    \/ DispatchReturn
    \/ DispatchRaise
    \/ \E t \in TaskIds : StartTask(t)
    \/ \E t \in TaskIds : Acquire(t)
    \/ \E t \in TaskIds : Probe(t)
    \/ \E t \in TaskIds : Check(t)
    \/ \E t \in TaskIds : Push(t)
    \/ \E t \in TaskIds : Pop(t)
    \/ \E t \in TaskIds : Store(t)

Spec == Init /\ [][Next]_vars

\* SpecFair: get_best_move on engines constructed (line 57 takes whatever
\* depth and pool size it is given) for a search of one ply, for one of two
\* plies by a pool of one worker, and, where the root's whole tree is one ply
\* high, for one of no ply; with threads that keep running: as long as some
\* thread can take a step, a step is taken.
FairRoots == {"BQ0", "Q0", "M0", "Ma"}

FairDepths(p) == IF HeightOf[p] <= 1 THEN {0, 1} ELSE {1, 2}

FairThreads(p, d) ==
    IF d = 2 THEN {1} ELSE 1..Max2(1, Min2(MaxThreads, Len(Children[p])))

InitFair ==
    /\ rootPos \in FairRoots
    /\ self_depth \in FairDepths(rootPos)
    /\ self_threads \in FairThreads(rootPos, self_depth)
    /\ transposition_table = EmptyTable
    /\ lock = None
    /\ board = NewBoard(rootPos)
    /\ pc = "idle"
    /\ root_moves = << >>
    /\ idx = 0
    /\ tasks = << >>
    /\ best_move = None
    /\ best_eval = NegInf
    /\ returned = << >>
    /\ call = NoCall
    /\ searches = 0
    /\ NoUCI

SpecFair == InitFair /\ [][Next]_vars /\ WF_vars(Next)

----------------------------------------------------------------------------
(* SpecUCI: UCIEngine.run() reading command lines, lines 172-176.  A go     *)
(* line has the engine search GoDepth plies.                                *)

InitUCI ==
    /\ rootPos = "Q0"
    /\ transposition_table = EmptyTable
    /\ call = NoCall
    /\ searches = 0
    /\ NoDispatch
    /\ NoUCI

\* one turn of run()'s loop: process_command(cmd), lines 129-144, and the
\* loop's test of self.running
ProcessCommand(cmd) ==
    /\ uci_pc = "run"
    /\ command' = cmd
    /\ IF cmd = <<"uci">>
       THEN /\ sent' = <<"id name AdvancedEngine", "id author YourName", "uciok">>
            /\ UNCHANGED <<engine, running, uci_pc>>
       ELSE IF startswith(cmd, "position")
       THEN LET r == handle_position(engine, cmd)
            IN  /\ engine' = r.engine
                /\ uci_pc' = IF r.raised THEN "raised" ELSE "run"
                /\ sent' = << >>
                /\ UNCHANGED running
       ELSE IF startswith(cmd, "go")
       THEN LET r == handle_go(engine, GoDepth)
            IN  /\ engine' = r.engine
                /\ uci_pc' = IF r.raised THEN "raised" ELSE "run"
                /\ sent' = r.sent
                /\ UNCHANGED running
       ELSE IF cmd = <<"quit">>
       THEN /\ running' = FALSE
            /\ uci_pc' = "exited"
            /\ sent' = << >>
            /\ UNCHANGED engine
       ELSE IF cmd = <<"isready">>
       THEN /\ sent' = <<"readyok">>
            /\ UNCHANGED <<engine, running, uci_pc>>
       ELSE /\ sent' = << >>
            /\ UNCHANGED <<engine, running, uci_pc>>
    /\ UNCHANGED <<rootPos, transposition_table, engineVars, searchVars>>

NextUCI == \E cmd \in Commands : ProcessCommand(cmd)

SpecUCI == InitUCI /\ [][NextUCI]_vars

----------------------------------------------------------------------------
(* SpecEngine: one method of ChessEngine or UCIEngine called on an engine   *)
(* that position commands can set up, and undo_move after make_move.        *)

\* the engines the position commands of Commands leave behind
UCIEngines ==
    {handle_position(ChessEngine, cmd).engine :
        cmd \in {c \in Commands : startswith(c, "position")
                                  /\ ~handle_position(ChessEngine, c).raised}}

\* the engine after the moves ms, made from the i-th on
RECURSIVE MakeAll(_, _, _)
MakeAll(e, ms, i) ==
    IF i > Len(ms) THEN e ELSE MakeAll(make_move(e, ms[i]).engine, ms, i + 1)

\* the engine `position startpos moves ...` sets up with moves that empty
\* every square outside keep (make_move from the empty a6 leaves its target
\* empty, lines 62-63), then make the moves of relocations, with an a6b6 more
\* where the side to move is not yet the one wanted
Setup(keep, relocations, white) ==
    LET cleared == [r \in 0..7 |-> [c \in 0..7 |->
                       IF r \in {0, 1, 6, 7} /\ <<r, c>> \notin keep THEN "."
                       ELSE StartBoard[r][c]]]
        moved == MakeAll([board |-> cleared, white_to_move |-> TRUE], relocations, 1)
    IN  [board |-> moved.board, white_to_move |-> white]

\* kings on e1 and e8 with: pawns e4 and e5 blocking each other; pawns on
\* their start squares a2 and h7; a white pawn on a8 and a black one on h1
SparseEngines ==
    {Setup({<<0, 4>>, <<7, 4>>, <<6, 4>>, <<1, 4>>},
           << << <<6, 4>>, <<4, 4>> >>, << <<1, 4>>, <<3, 4>> >> >>, w) : w \in BOOLEAN}
    \cup {Setup({<<0, 4>>, <<7, 4>>, <<6, 0>>, <<1, 7>>}, << >>, w) : w \in BOOLEAN}
    \cup {Setup({<<0, 4>>, <<7, 4>>, <<6, 0>>, <<1, 7>>},
                << << <<6, 0>>, <<0, 0>> >>, << <<1, 7>>, <<7, 7>> >> >>, w) :
             w \in BOOLEAN}

EngineStates == UCIEngines \cup SparseEngines

\* the moves make_move is called with on engine e: the generated ones, a
\* capture, and a move that stays on its square
TrialMoves(e) ==
    LET g == generate_legal_moves(e)
    IN  {g.moves[i] : i \in 1..Len(g.moves)}
        \cup {<< <<6, 4>>, <<1, 4>> >>, << <<6, 4>>, <<6, 4>> >>}

\* the words of two squares, as characters, and the moves on the board
SquareWords ==
    {<<f1, r1, f2, r2>> : f1 \in {"a", "b", "c", "d", "e", "f", "g", "h"},
                          r1 \in {"1", "2", "3", "4", "5", "6", "7", "8"},
                          f2 \in {"a", "b", "c", "d", "e", "f", "g", "h"},
                          r2 \in {"1", "2", "3", "4", "5", "6", "7", "8"}}
BoardMoves == {<< <<r1, c1>>, <<r2, c2>> >> : r1 \in 0..7, c1 \in 0..7, r2 \in 0..7, c2 \in 0..7}

InitEngine ==
    /\ rootPos = "Q0"
    /\ transposition_table = EmptyTable
    /\ call = NoCall
    /\ searches = 0
    /\ NoDispatch
    /\ engine \in EngineStates
    /\ running = TRUE
    /\ command = << >>
    /\ sent = << >>
    /\ uci_pc = "run"

EngineFrame == UNCHANGED <<rootPos, transposition_table, engineVars, searches,
                           running, command, sent, uci_pc>>

EngineGenerate ==
    /\ call = NoCall
    /\ LET g == generate_legal_moves(engine)
       IN  call' = [op |-> "generate_legal_moves", before |-> engine,
                    raised |-> g.raised, moves |-> g.moves, rows |-> g.rows]
    /\ UNCHANGED engine
    /\ EngineFrame

EngineMakeMove(move) ==
    /\ call = NoCall
    /\ call' = [op |-> "make_move", before |-> engine, move |-> move,
                captured_piece |->
                    engine.board[ListIndex(move[2][1])][ListIndex(move[2][2])]]
    /\ engine' = make_move(engine, move).engine
    /\ EngineFrame

EngineUndoMove ==
    /\ call.op = "make_move"
    /\ call' = [op |-> "undo_move", before |-> call.before, move |-> call.move]
    /\ engine' = undo_move(engine, call.move, call.captured_piece)
    /\ EngineFrame

EngineAlphaBeta(depth, w, maximizing_player) ==
    /\ call = NoCall
    /\ LET r == alpha_beta(engine, depth, w[1], w[2], maximizing_player)
       IN  /\ call' = [op |-> "alpha_beta", before |-> engine, depth |-> depth,
                       alpha |-> w[1], beta |-> w[2],
                       maximizing_player |-> maximizing_player,
                       moves |-> generate_legal_moves(engine),
                       raised |-> r.raised, eval |-> r.eval, move |-> r.move]
           /\ engine' = r.engine
    /\ EngineFrame

EngineGetBestMove(depth) ==
    /\ call = NoCall
    /\ LET r == get_best_move(engine, depth)
       IN  /\ call' = [op |-> "get_best_move", before |-> engine, depth |-> depth,
                       moves |-> generate_legal_moves(engine),
                       raised |-> r.raised, move |-> r.move]
           /\ engine' = r.engine
    /\ EngineFrame

EngineUciToMove(s) ==
    /\ call = NoCall
    /\ engine = ChessEngine
    /\ call' = [op |-> "uci_to_move", move_str |-> s, result |-> uci_to_move_chars(s)]
    /\ UNCHANGED engine
    /\ EngineFrame

EngineMoveToUci(move) ==
    /\ call = NoCall
    /\ engine = ChessEngine
    /\ call' = [op |-> "move_to_uci", move |-> move, result |-> move_to_uci(move)]
    /\ UNCHANGED engine
    /\ EngineFrame

NextEngine ==
    \/ EngineGenerate
    \/ \E move \in TrialMoves(engine) : EngineMakeMove(move)
    \/ EngineUndoMove
    \/ \E depth \in 0..MaxEngineDepth : \E w \in Windows : \E m \in BOOLEAN :
          EngineAlphaBeta(depth, w, m)
    \/ \E depth \in 0..MaxEngineDepth : EngineGetBestMove(depth)
    \/ \E s \in SquareWords : EngineUciToMove(s)
    \/ \E move \in BoardMoves : EngineMoveToUci(move)

SpecEngine == InitEngine /\ [][NextEngine]_vars

----------------------------------------------------------------------------
(* Reference notions the claims are stated with *)

FullWindow(c) == c.alpha = NegInf /\ c.beta = PosInf

Abs(x) == IF x < 0 THEN 0 - x ELSE x

\* the side `loser` is checkmated within n plies of p whatever it plays
RECURSIVE ForcedMate(_, _, _)
ForcedMate(p, loser, n) ==
    IF p \in Checkmates THEN turn(p) = loser
    ELSE IF p \in GameOver \/ n = 0 \/ Children[p] = << >> THEN FALSE
    ELSE IF turn(p) = loser
         THEN \A i \in 1..Len(Children[p]) : ForcedMate(Children[p][i].to, loser, n - 1)
         ELSE \E i \in 1..Len(Children[p]) : ForcedMate(Children[p][i].to, loser, n - 1)

\* the number of plies to that mate, or -1 when there is none within MaxDepth
MatePlies(p, loser) ==
    LET ns == {n \in 0..MaxDepth : ForcedMate(p, loser, n)}
    IN  IF ns = {} THEN 0 - 1 ELSE CHOOSE n \in ns : \A m \in ns : n <= m

\* the evaluation of p from the point of view of `side`
ScoreFor(p, side) ==
    IF is_checkmate(p) THEN (IF turn(p) = side THEN NegInf ELSE PosInf)
    ELSE IF is_stalemate(p) \/ is_insufficient_material(p) THEN 0
    ELSE eval_score(PiecesOf[p], side, 0)

SetMax(S) == CHOOSE x \in S : \A y \in S : y <= x
SetMin(S) == CHOOSE x \in S : \A y \in S : x <= y

\* the depth-limited minimax value of p for `side`: `side` picks the highest
\* value where it is to move, its opponent the lowest
RECURSIVE ValueFor(_, _, _)
ValueFor(p, depth, side) ==
    IF depth = 0 \/ p \in GameOver \/ Children[p] = << >> THEN ScoreFor(p, side)
    ELSE LET vs == {ValueFor(Children[p][i].to, depth - 1, side) :
                        i \in 1..Len(Children[p])}
         IN  IF turn(p) = side THEN SetMax(vs) ELSE SetMin(vs)

\* the root moves of p that are best for the side to move, searching `depth` plies
BestRootMoves(p, depth) ==
    LET v(i) == ValueFor(Children[p][i].to, depth - 1, turn(p))
    IN  {Children[p][i].move : i \in {j \in 1..Len(Children[p]) :
                                        \A k \in 1..Len(Children[p]) : v(k) <= v(j)}}

\* every task of the call that has returned gave the score minimax gives, on
\* a new engine, for the position after the task's own root move
Undisturbed ==
    \A t \in 1..Len(tasks) :
        /\ tasks[t].state = "done"
        /\ tasks[t].result = minimax(EmptyTable, PushTo(rootPos, tasks[t].move),
                                     self_depth - 1, NegInf, PosInf, FALSE, TRUE, TRUE).score

\* a move word naming two squares of the board
WellFormed(w) ==
    LET s == Chars[w]
        files == {"a", "b", "c", "d", "e", "f", "g", "h"}
        ranks == {"1", "2", "3", "4", "5", "6", "7", "8"}
    IN  /\ Len(s) = 4
        /\ s[1] \in files /\ s[2] \in ranks /\ s[3] \in files /\ s[4] \in ranks

\* a command line the protocol adapter has a meaning for
Accepted(cmd) ==
    \/ cmd \in {<<"uci">>, <<"isready">>, <<"ucinewgame">>, <<"quit">>, <<"go">>}
    \/ /\ cmd[1] = "position"
       /\ Len(cmd) >= 2 /\ cmd[2] = "startpos"
       /\ Len(cmd) >= 3 => cmd[3] = "moves"
       /\ \A i \in 4..Len(cmd) : WellFormed(cmd[i])

\* the square a file letter and a rank digit name, as <<row, column>> of the
\* board printed with rank 8 on top
Files == <<"a", "b", "c", "d", "e", "f", "g", "h">>
Ranks == <<"8", "7", "6", "5", "4", "3", "2", "1">>
SquareOf(file, rank) == <<IndexIn(Ranks, rank) - 1, IndexIn(Files, file) - 1>>

\* the board b after the piece on the first square of word w went to the second
Relocated(b, w) ==
    LET from == SquareOf(Chars[w][1], Chars[w][2])
        to == SquareOf(Chars[w][3], Chars[w][4])
    IN  [r \in 0..7 |-> [c \in 0..7 |->
            IF <<r, c>> = to THEN b[from[1]][from[2]]
            ELSE IF <<r, c>> = from THEN "."
            ELSE b[r][c]]]

\* the initial position with the first n words of ws applied in their order
RECURSIVE Replayed(_, _)
Replayed(ws, n) ==
    IF n = 0 THEN StartBoard ELSE Relocated(Replayed(ws, n - 1), ws[n])

\* a position command that names the start position and well-formed moves
IsReplay(cmd) == cmd # << >> /\ cmd[1] = "position" /\ Accepted(cmd)
ReplayWords(cmd) == SubSeq(cmd, 4, Len(cmd))

----------------------------------------------------------------------------
(* Claims on the search and the evaluation, under SpecSearch *)

\* C2: called with the full window on a new engine, minimax returns the
\* score of the same search without the beta <= alpha break.
C2_PruningKeepsScore ==
    (call.op = "minimax" /\ call.fresh /\ FullWindow(call)) =>
        call.score = minimax(EmptyTable, call.pos, call.depth, NegInf, PosInf,
                             call.maximizing_player, FALSE, TRUE).score

\* C3: whatever earlier searches left in the transposition table, minimax
\* returns the score of the same search run without the table.
C3_CacheTransparent ==
    call.op = "minimax" =>
        call.score = minimax(EmptyTable, call.pos, call.depth, call.alpha, call.beta,
                             call.maximizing_player, TRUE, FALSE).score

\* C8: on a position whose side to move is checkmated, of either colour,
\* evaluate_board returns the loss sentinel, below every non-terminal score.
C8_MatedSideGetsLoss ==
    (call.op = "evaluate_board" /\ is_checkmate(call.pos)) =>
        /\ call.score = NegInf
        /\ \A q \in Positions \ GameOver : call.score < EvalOf[q]

\* C9: a forced mate in fewer plies from the searched position scores
\* strictly more extremely than a forced mate of the same side in more plies.
C9_SoonerMateMoreExtreme ==
    (call.op = "minimax" /\ call.fresh /\ FullWindow(call)) =>
        \A q \in Reach[rootPos] : \A loser \in BOOLEAN :
            LET a == MatePlies(call.pos, loser)
                b == MatePlies(q, loser)
                later == minimax(EmptyTable, q, call.depth, NegInf, PosInf,
                                 call.maximizing_player, TRUE, TRUE).score
            IN  (/\ a >= 0
                 /\ b > a
                 /\ b <= call.depth
                 /\ call.depth \in DepthsAt(q)
                 /\ MaximizingAt(q) = call.maximizing_player)
                => Abs(call.score) > Abs(later)

----------------------------------------------------------------------------
(* Claims on get_best_move and its worker threads, under Spec *)

\* C1: a task that has read the board for its key has read the position that
\* results from its own root move: no other thread moved the board it searches.
C1_TaskSearchesOwnPosition ==
    \A t \in 1..Len(tasks) :
        (tasks[t].state = "running" /\ tasks[t].frames[1].at \notin {"lock1", "probe"}) =>
            tasks[t].frames[1].key[1] = PushTo(rootPos, tasks[t].move)

\* C4: every call of get_best_move on the same position, depth and pool
\* size returns the same move.
C4_SameMoveEveryCall ==
    \A i \in 1..Len(returned) : \A j \in 1..Len(returned) : returned[i] = returned[j]

\* C5: a move get_best_move returns is, among the legal root moves, one of
\* the highest depth-limited minimax value for the side to move at the root.
C5_BestForRootSide ==
    (pc = "idle" /\ Len(returned) = 1 /\ returned[1] # None /\ Undisturbed) =>
        returned[1] \in BestRootMoves(rootPos, self_depth)

\* C6: on a root position without legal moves get_best_move submits no
\* task, does not raise, and returns None at its next step.
C6_NoMovesNoSearch ==
    [][legal_moves(rootPos) = << >> =>
          /\ tasks' = << >>
          /\ pc' \in {"idle", "collect"}
          /\ pc = "collect" => (pc' = "idle" /\ returned' = Append(returned, None))]_vars

C6_Witness ==
    /\ legal_moves(rootPos) = << >>
    /\ pc = "idle"
    /\ returned # << >>
    /\ returned[Len(returned)] = None
    /\ tasks = << >>

\* C7: the move get_best_move returns is the first submitted move whose
\* task returned the highest score.
C7_FirstBestMoveKept ==
    (pc = "idle" /\ returned # << >> /\ tasks # << >>) =>
        LET best == SetMax({tasks[t].result : t \in 1..Len(tasks)})
            first == CHOOSE t \in 1..Len(tasks) :
                        /\ tasks[t].result = best
                        /\ \A u \in 1..(t - 1) : tasks[u].result # best
        IN  returned[Len(returned)] = tasks[first].move

\* C13: every write to the transposition table under a key that already holds
\* a score writes that same score, whichever worker writes and whatever its
\* window.
C13_RewritesSameScore ==
    [][\A k \in DOMAIN transposition_table :
          k \in DOMAIN transposition_table' /\ transposition_table'[k] = transposition_table[k]]_vars

\* C14: whatever depth >= 0 the engine is constructed with, no activation of
\* minimax has a negative remaining depth, and each activation called from
\* another has a remaining depth one less than its caller's.
C14_DepthCountsDownToZero ==
    \A t \in 1..Len(tasks) :
        \A i \in 1..Len(tasks[t].frames) :
            /\ tasks[t].frames[i].depth >= 0
            /\ i > 1 => tasks[t].frames[i].depth = tasks[t].frames[i - 1].depth - 1

\* a task holds the lock exactly at its steps that read or write the table
\* (lines 81-83, 88, 103, 116): across no recursive call, push, pop or wait
LockDiscipline ==
    {t \in 1..Len(tasks) :
        (lock = <<t>>) # (Running(t) /\ Top(t).at \in {"probe", "store"})} = {}

\* get_best_move has returned and every task it submitted is done
CallReturned ==
    /\ pc = "idle"
    /\ {t \in 1..Len(tasks) : tasks[t].state # "done"} = {}

\* C17: with threads that keep running, every call of get_best_move returns,
\* all its tasks finished; the table is read and written only under the lock,
\* and the lock is held across no recursive call, push, pop or wait.
C17_EveryCallReturns ==
    /\ []LockDiscipline
    /\ (pc # "idle") ~> CallReturned

\* C16: on a root position with a legal move, every call of get_best_move
\* (the depth is 1 or more) that returns gives one of the root's legal moves,
\* never None, whatever the root moves score.
C16_ReturnsLegalMove ==
    legal_moves(rootPos) # << >> =>
        \A i \in 1..Len(returned) :
            \E j \in 1..Len(legal_moves(rootPos)) : returned[i] = legal_moves(rootPos)[j]

----------------------------------------------------------------------------
(* Claims on the protocol adapter, under SpecUCI *)

\* C10: processing a command line never raises, and a line the adapter has no
\* meaning for leaves the engine as it was and is answered with a message.
C10_CommandsHandledSafely ==
    [][/\ uci_pc' # "raised"
       /\ ~Accepted(command') => (engine' = engine /\ sent' # << >>)]_vars

\* C11: a position command with startpos and moves m1..mn leaves the board of
\* the initial position with m1..mn applied in order and White to move exactly
\* when n is even, whatever the engine held before, and processing the same
\* command once more changes nothing.
C11_PositionReplays ==
    [][IsReplay(command') =>
          LET ws == ReplayWords(command')
          IN  /\ uci_pc' = "run"
              /\ engine'.board = Replayed(ws, Len(ws))
              /\ engine'.white_to_move = (Len(ws) % 2 = 0)
              /\ handle_position(engine', command') = [raised |-> FALSE, engine |-> engine']]_vars

C11_Witness ==
    /\ IsReplay(command)
    /\ Len(ReplayWords(command)) = MaxTokens
    /\ engine.board = Replayed(ReplayWords(command), MaxTokens)
    /\ engine.board # StartBoard

----------------------------------------------------------------------------
(* Claims on the stand-alone engine, under SpecEngine *)

C15_NoMovesIsFatal ==
    (/\ call.op = "alpha_beta"
     /\ call.depth > 0
     /\ ~call.moves.raised
     /\ call.moves.moves = << >>) => call.raised

\* C18: on every board a position command can set up, generate_legal_moves
\* raises nothing, reads only rows 0..7 of the board, and lists only moves of
\* a pawn to the empty square one row ahead in its own direction, or two rows
\* ahead from its start row over an empty square.
C18_MovesStayOnBoard ==
    call.op = "generate_legal_moves" =>
        /\ ~call.raised
        /\ call.rows \subseteq 0..7
        /\ \A i \in 1..Len(call.moves) :
              LET from_pos == call.moves[i][1]
                  to_pos == call.moves[i][2]
                  b == call.before.board
                  step == IF isupper(b[from_pos[1]][from_pos[2]]) THEN 0 - 1 ELSE 1
                  start_row == IF isupper(b[from_pos[1]][from_pos[2]]) THEN 6 ELSE 1
              IN  /\ upper(b[from_pos[1]][from_pos[2]]) = "P"
                  /\ to_pos[2] = from_pos[2]
                  /\ to_pos[1] \in 0..7
                  /\ b[to_pos[1]][to_pos[2]] = "."
                  /\ \/ to_pos[1] = from_pos[1] + step
                     \/ /\ from_pos[1] = start_row
                        /\ to_pos[1] = from_pos[1] + 2 * step
                        /\ b[from_pos[1] + step][from_pos[2]] = "."

\* C19: for every word s of two squares with files a-h and ranks 1-8,
\* uci_to_move(s) has its coordinates on the board and move_to_uci gives s
\* back from it; for every move m with coordinates in 0..7, uci_to_move gives
\* m back from move_to_uci(m).
C19_NotationRoundTrip ==
    /\ call.op = "uci_to_move" =>
          /\ ~call.result.raised
          /\ \A k \in 1..2 : \A x \in 1..2 : call.result.move[k][x] \in 0..7
          /\ move_to_uci(call.result.move) = call.move_str
    /\ call.op = "move_to_uci" =>
          uci_to_move_chars(call.result) = [raised |-> FALSE, move |-> call.move]

\* h8a1 read as the move from row 0, column 7 to row 7, column 0
C19_Witness ==
    /\ call.op = "uci_to_move"
    /\ call.move_str = <<"h", "8", "a", "1">>
    /\ call.result = [raised |-> FALSE, move |-> << <<0, 7>>, <<7, 0>> >>]
    /\ move_to_uci(call.result.move) = call.move_str

====
